---- MODULE Spec2Model ----
(***************************************************************************)
(* Model of apps/inference/main.py: the letterbox transform, the YOLOv8    *)
(* output decoder, greedy NMS and the /detect WebSocket frame loop.        *)
(*                                                                         *)
(* Numbers.  Tensor entries and scores are integers counting quarters      *)
(* (1 = 0.25), so a pixel coordinate of 160 is the entry 640 and a score   *)
(* of 0.75 is the entry 3.  A normalised box coordinate is kept as the     *)
(* integer numerator of the exact fraction the code computes, over the     *)
(* denominator 8 * draw_w (x) or 8 * draw_h (y).  IoU thresholds count     *)
(* hundredths (45 = 0.45).  Arithmetic is exact; only finite numbers are   *)
(* modelled.                                                               *)
(***************************************************************************)
EXTENDS Integers, Sequences, FiniteSets, TLC

VARIABLES
    \* nms applied to drawn inputs (SpecNms)
    nms_dets, nms_iou_thresh, nms_max_det, nms_keep, nms_done,
    \* decode_yolov8 applied to drawn inputs (SpecDecode)
    dec_out, dec_lb, dec_thresh, dec_res, dec_done,
    \* detect_ws (Spec)
    pc,          \* position of the handler coroutine
    inbound,     \* what the last receive_json call delivered
    msg,         \* the message it returned
    frame_id, capture_ts, image_b64, ws_lb, outputs, ws_dets,
    sent,        \* responses sent since the last receive_json call
    ran          \* pipeline steps run since the last receive_json call

wsVars == <<pc, inbound, msg, frame_id, capture_ts, image_b64, ws_lb, outputs,
            ws_dets, sent, ran>>
nmsVars == <<nms_dets, nms_iou_thresh, nms_max_det, nms_keep, nms_done>>
decVars == <<dec_out, dec_lb, dec_thresh, dec_res, dec_done>>
vars == <<nmsVars, decVars, wsVars>>

\* line 30
MODEL_INPUT_SIZE == 320

\* longest detection list handed to nms in SpecNms
MaxLen == 3
\* largest max_det handed to nms in SpecNms
MaxDetArg == 3

Min(a, b) == IF b < a THEN b ELSE a
Max(a, b) == IF b > a THEN b ELSE a

SeqsUpTo(S, n) == UNION {[1..k -> S] : k \in 0..n}

Det(label, score, xmin, ymin, xmax, ymax) ==
    [label |-> label, score |-> score,
     xmin |-> xmin, ymin |-> ymin, xmax |-> xmax, ymax |-> ymax]

----------------------------------------------------------------------------
(* nms, lines 155-178 *)

\* lines 161-166: the fraction <<inter, union>>, or <<0, 1>> when union <= 0
iou(a, b) ==
    LET x1 == Max(a.xmin, b.xmin)
        y1 == Max(a.ymin, b.ymin)
        x2 == Min(a.xmax, b.xmax)
        y2 == Min(a.ymax, b.ymax)
        inter == Max(0, x2 - x1) * Max(0, y2 - y1)
        area_a == Max(0, a.xmax - a.xmin) * Max(0, a.ymax - a.ymin)
        area_b == Max(0, b.xmax - b.xmin) * Max(0, b.ymax - b.ymin)
        union == area_a + area_b - inter
    IN  IF union <= 0 THEN <<0, 1>> ELSE <<inter, union>>

\* line 171: iou(d, k) > iou_thresh, iou_thresh in hundredths
IouExceeds(d, k, iou_thresh) ==
    LET f == iou(d, k) IN f[1] * 100 > iou_thresh * f[2]

\* d placed behind every element whose score is >= d.score
RECURSIVE InsertByScore(_, _)
InsertByScore(s, d) ==
    IF s = <<>> THEN <<d>>
    ELSE IF Head(s).score >= d.score THEN <<Head(s)>> \o InsertByScore(Tail(s), d)
    ELSE <<d>> \o s

\* d placed in front of the elements whose score equals d.score
RECURSIVE InsertBeforeTies(_, _)
InsertBeforeTies(s, d) ==
    IF s = <<>> THEN <<d>>
    ELSE IF Head(s).score > d.score THEN <<Head(s)>> \o InsertBeforeTies(Tail(s), d)
    ELSE <<d>> \o s

RECURSIVE SortedTiesReversed(_)
SortedTiesReversed(dets) ==
    IF dets = <<>> THEN <<>>
    ELSE InsertBeforeTies(SortedTiesReversed(SubSeq(dets, 1, Len(dets) - 1)),
                          dets[Len(dets)])

\* line 158: sorted(dets, key=score, reverse=True), a stable sort
RECURSIVE SortedByScore(_)
SortedByScore(dets) ==
    IF dets = <<>> THEN <<>>
    ELSE InsertByScore(SortedByScore(SubSeq(dets, 1, Len(dets) - 1)),
                       dets[Len(dets)])

\* d compared with the box kept last only
OkLastOnly(d, keep, iou_thresh) ==
    keep = <<>> \/ ~IouExceeds(d, keep[Len(keep)], iou_thresh)

\* lines 169-173: no kept box overlaps d by more than iou_thresh
Ok(d, keep, iou_thresh) ==
    \A j \in 1..Len(keep) : ~IouExceeds(d, keep[j], iou_thresh)

\* lines 168-177: the loop over the sorted list from position i on
RECURSIVE NmsLoop(_, _, _, _, _)
NmsLoop(dets, i, keep, iou_thresh, max_det) ==
    IF i > Len(dets) THEN keep
    ELSE IF Ok(dets[i], keep, iou_thresh)
         THEN LET kept == Append(keep, dets[i])
              IN  IF Len(kept) >= max_det THEN kept
                  ELSE NmsLoop(dets, i + 1, kept, iou_thresh, max_det)
         ELSE NmsLoop(dets, i + 1, keep, iou_thresh, max_det)

\* lines 155-178
nms(dets, iou_thresh, max_det) ==
    IF dets = <<>> THEN <<>>
    ELSE NmsLoop(SortedByScore(dets), 1, <<>>, iou_thresh, max_det)

----------------------------------------------------------------------------
(* preprocess_letterbox, lines 66-82 *)

\* round(num / den) as Python rounds: halves go to the even neighbour
RoundHalfEven(num, den) ==
    LET q == num \div den
        r == num % den
    IN  IF 2 * r < den THEN q
        ELSE IF 2 * r > den THEN q + 1
        ELSE IF q % 2 = 0 THEN q ELSE q + 1

\* lines 68-73 and 82: scale = model_size / max(src_w, src_h)
preprocess_letterbox(src_w, src_h, model_size) ==
    LET m == Max(src_w, src_h)
        draw_w == RoundHalfEven(src_w * model_size, m)
        draw_h == RoundHalfEven(src_h * model_size, m)
    IN  [dx |-> (model_size - draw_w) \div 2,
         dy |-> (model_size - draw_h) \div 2,
         draw_w |-> draw_w, draw_h |-> draw_h, model |-> model_size,
         src_w |-> src_w, src_h |-> src_h]

----------------------------------------------------------------------------
(* decode_yolov8, lines 89-152.  A tensor is [dims, data]: dims the shape,  *)
(* data[i][j] the entry at [0, i-1, j-1].                                   *)

Transpose(m, rows, cols) == [j \in 1..cols |-> [i \in 1..rows |-> m[i][j]]]

\* lines 85-86, to the nearest quarter: the logistic function crosses
\* 0.125, 0.375, 0.625 and 0.875 at -1.95, -0.51, 0.51 and 1.95
sigmoid(x) ==
    IF x <= -8 THEN 0
    ELSE IF x <= -3 THEN 1
    ELSE IF x <= 2 THEN 2
    ELSE IF x <= 7 THEN 3
    ELSE 4

\* line 100
Accepted(dims) == Len(dims) = 3 /\ (dims[2] >= 6 \/ dims[3] >= 6)

ChannelFirstOrEqual(dims) == dims[2] >= 6 /\ dims[3] >= dims[2]
\* line 101
ChannelFirst(dims) == dims[2] >= 6 /\ dims[3] > dims[2]

\* lines 104, 108
NumProps(dims) == IF ChannelFirst(dims) THEN dims[3] ELSE dims[2]
\* lines 103, 109
NumClasses(dims) == IF ChannelFirst(dims) THEN dims[2] - 4 ELSE dims[3] - 4

\* lines 105, 110: the [4+C, N] view of the first batch element
ViewX(out) ==
    IF ChannelFirst(out.dims) THEN out.data
    ELSE Transpose(out.data, out.dims[2], out.dims[3])

\* lines 105, 110 raise IndexError on an empty batch; line 116 raises
\* ValueError when the score block x[4:4+C, :] has no element
DecodeRaises(dims) ==
    \/ dims[1] = 0
    \/ NumProps(dims) = 0
    \/ NumClasses(dims) <= 0

\* lines 114-117: the score block of candidate i, activated when any score of
\* the whole block lies outside [0, 1]
RawScores(x, i) == [c \in 1..(Len(x) - 4) |-> x[4 + c][i]]
LooksUnbounded(x, num_props) ==
    \E r \in 5..Len(x), j \in 1..num_props : x[r][j] > 4 \/ x[r][j] < 0
Scores(x, i, num_props) ==
    IF LooksUnbounded(x, num_props)
    THEN [c \in 1..(Len(x) - 4) |-> sigmoid(RawScores(x, i)[c])]
    ELSE RawScores(x, i)

\* line 118: the first index holding the maximum, zero-based
ArgMax(v) ==
    (CHOOSE c \in 1..Len(v) :
        /\ \A e \in 1..Len(v) : v[e] <= v[c]
        /\ \A e \in 1..(c - 1) : v[e] < v[c]) - 1

Unclamped(n, den) == n
\* lines 138-141: max(0.0, min(1.0, n / den))
Clamp(n, den) == Max(0, Min(den, n))

\* lines 129-132 and 138-141 for candidate i
Box(x, i, lb) ==
    LET cx == x[1][i]
        cy == x[2][i]
        w == x[3][i]
        h == x[4][i]
    IN  [xmin |-> Clamp(2 * cx - w - 8 * lb.dx, 8 * lb.draw_w),
         ymin |-> Clamp(2 * cy - h - 8 * lb.dy, 8 * lb.draw_h),
         xmax |-> Clamp(2 * cx + w - 8 * lb.dx, 8 * lb.draw_w),
         ymax |-> Clamp(2 * cy + h - 8 * lb.dy, 8 * lb.draw_h)]

\* line 142
Degenerate(b) == b.xmax <= b.xmin \/ b.ymax <= b.ymin

\* lines 134-151: the loop from candidate i on
RECURSIVE Candidates(_, _, _, _, _)
Candidates(x, i, num_props, lb, score_thresh) ==
    IF i > num_props THEN <<>>
    ELSE LET sc == Scores(x, i, num_props)
             best_cls == ArgMax(sc)
             s == sc[best_cls + 1]
             b == Box(x, i, lb)
             rest == Candidates(x, i + 1, num_props, lb, score_thresh)
         IN  IF s < score_thresh THEN rest
             ELSE IF Degenerate(b) THEN rest
             ELSE <<Det(best_cls, s, b.xmin, b.ymin, b.xmax, b.ymax)>> \o rest

NoDecode ==
    [raised |-> FALSE, layout |-> "none", num_props |-> 0, num_classes |-> 0,
     x |-> <<>>, dets |-> <<>>]

decode_yolov8_strict(out, lb, score_thresh) ==
    IF ~Accepted(out.dims) THEN [NoDecode EXCEPT !.raised = TRUE]
    ELSE LET layout == IF ChannelFirst(out.dims) THEN "channel_first" ELSE "box_first"
             np == NumProps(out.dims)
             nc == NumClasses(out.dims)
         IN  IF DecodeRaises(out.dims)
             THEN [raised |-> TRUE, layout |-> layout, num_props |-> np,
                   num_classes |-> nc, x |-> <<>>, dets |-> <<>>]
             ELSE [raised |-> FALSE, layout |-> layout, num_props |-> np,
                   num_classes |-> nc, x |-> ViewX(out),
                   dets |-> Candidates(ViewX(out), 1, np, lb, score_thresh)]
\* lines 89-152
decode_yolov8(out, lb, score_thresh) ==
    IF ~Accepted(out.dims) THEN NoDecode
    ELSE LET layout == IF ChannelFirst(out.dims) THEN "channel_first" ELSE "box_first"
             np == NumProps(out.dims)
             nc == NumClasses(out.dims)
         IN  IF DecodeRaises(out.dims)
             THEN [raised |-> TRUE, layout |-> layout, num_props |-> np,
                   num_classes |-> nc, x |-> <<>>, dets |-> <<>>]
             ELSE [raised |-> FALSE, layout |-> layout, num_props |-> np,
                   num_classes |-> nc, x |-> ViewX(out),
                   dets |-> Candidates(ViewX(out), 1, np, lb, score_thresh)]

----------------------------------------------------------------------------
(* JSON values of an inbound message and the conversions of lines 195-197.  *)
(* A float counts tenths (29 = 2.9); capture_ts is kept in tenths.          *)

Val(t, v) == [t |-> t, v |-> v]
Absent == Val("absent", 0)

\* dict.get(key, default), lines 195-196
Get(field, default) == IF field.t = "absent" THEN default ELSE field

\* int(v), line 195: truncates a float towards zero, parses the string of an
\* integer, raises on any other string and on null
IntOf(val) ==
    IF val.t = "int" \/ val.t = "numstr" THEN [raised |-> FALSE, v |-> val.v]
    ELSE IF val.t = "float"
         THEN [raised |-> FALSE,
               v |-> IF val.v >= 0 THEN val.v \div 10 ELSE -((-val.v) \div 10)]
    ELSE [raised |-> TRUE, v |-> 0]

\* float(v), line 196
FloatOf(val) ==
    IF val.t = "int" \/ val.t = "numstr" THEN [raised |-> FALSE, v |-> val.v * 10]
    ELSE IF val.t = "float" THEN [raised |-> FALSE, v |-> val.v]
    ELSE [raised |-> TRUE, v |-> 0]

\* image_b64 values: absent, null, "", a number, a string that is no image,
\* the base64 of an image of w x h pixels, plain or behind a data-URL prefix
Payload(t, w, h) == [t |-> t, w |-> w, h |-> h]

\* line 198: not image_b64
Falsy(payload) == payload.t \in {"absent", "null", "empty"}

\* lines 55-63: "," in data_url raises on a number, b64decode / Image.open
\* raise on a string that holds no image
decode_image_from_b64(data_url) ==
    IF data_url.t \in {"plain", "dataurl"}
    THEN [raised |-> FALSE, w |-> data_url.w, h |-> data_url.h]
    ELSE [raised |-> TRUE, w |-> 0, h |-> 0]

Object(fid, cts, img) ==
    [kind |-> "object", frame_id |-> fid, capture_ts |-> cts, image_b64 |-> img]
\* a JSON value that is no object (an array, a number, a string)
NotAnObject ==
    [kind |-> "other", frame_id |-> Absent, capture_ts |-> Absent,
     image_b64 |-> Payload("absent", 0, 0)]
NoMessage ==
    [kind |-> "none", frame_id |-> Absent, capture_ts |-> Absent,
     image_b64 |-> Payload("absent", 0, 0)]

\* the three responses of lines 199, 217-225 and 227
MissingResponse ==
    [kind |-> "missing", has_frame_id |-> FALSE, frame_id |-> 0,
     capture_ts |-> 0, detections |-> <<>>]
ErrorResponse(fid) ==
    [kind |-> "error", has_frame_id |-> TRUE, frame_id |-> fid,
     capture_ts |-> 0, detections |-> <<>>]
ResultResponse(fid, cts, detections) ==
    [kind |-> "result", has_frame_id |-> TRUE, frame_id |-> fid,
     capture_ts |-> cts, detections |-> detections]

----------------------------------------------------------------------------
(* values of the variables a specification does not use *)

NoGeometry ==
    [dx |-> 0, dy |-> 0, draw_w |-> 0, draw_h |-> 0, model |-> 0,
     src_w |-> 0, src_h |-> 0]
NoTensor == [dims |-> <<>>, data |-> <<>>]

NmsIdle ==
    /\ nms_dets = <<>>
    /\ nms_iou_thresh = 0
    /\ nms_max_det = 0
    /\ nms_keep = <<>>
    /\ nms_done = FALSE

DecodeIdle ==
    /\ dec_out = NoTensor
    /\ dec_lb = NoGeometry
    /\ dec_thresh = 0
    /\ dec_res = NoDecode
    /\ dec_done = FALSE

WsIdle ==
    /\ pc = "receive"
    /\ inbound = "none"
    /\ msg = NoMessage
    /\ frame_id = 0
    /\ capture_ts = 0
    /\ image_b64 = Payload("absent", 0, 0)
    /\ ws_lb = NoGeometry
    /\ outputs = NoTensor
    /\ ws_dets = <<>>
    /\ sent = <<>>
    /\ ran = {}

----------------------------------------------------------------------------
(* SpecNms: nms applied once to inputs drawn from bounded sets *)

\* boxes on a grid of quarters: overlapping, nested, disjoint, zero-area and
\* inverted ones; scores with ties
NmsBoxes ==
    { Det(0, 3, 0, 0, 4, 4),     \* A
      Det(1, 3, 1, 0, 5, 4),     \* IoU with A = 12/20 = 0.6
      Det(0, 2, 0, 0, 4, 4),     \* same box as A, lower score, IoU 1
      Det(2, 3, 6, 6, 8, 8),     \* disjoint from the others
      Det(1, 4, 2, 2, 2, 2),     \* zero area
      Det(0, 1, 3, 3, 1, 1) }    \* inverted corners

NmsThresholds == {0, 45, 100}

InitNms ==
    /\ nms_dets \in SeqsUpTo(NmsBoxes, MaxLen)
    /\ nms_iou_thresh \in NmsThresholds
    /\ nms_max_det \in 0..MaxDetArg
    /\ nms_keep = <<>>
    /\ nms_done = FALSE
    /\ DecodeIdle
    /\ WsIdle

ApplyNms ==
    /\ ~nms_done
    /\ nms_keep' = nms(nms_dets, nms_iou_thresh, nms_max_det)
    /\ nms_done' = TRUE
    /\ UNCHANGED <<nms_dets, nms_iou_thresh, nms_max_det, decVars, wsVars>>

NextNms == ApplyNms

SpecNms == InitNms /\ [][NextNms]_vars


----------------------------------------------------------------------------
(* SpecDecode: decode_yolov8 applied once to inputs drawn from bounded sets *)

Tensor(dims, data) == [dims |-> dims, data |-> data]

Pad == <<0, 0, 0, 0, 0, 0>>
PadTo(cands, n) == cands \o [k \in 1..(n - Len(cands)) |-> Pad]
Narrow(cands, n) == [k \in 1..Len(cands) |-> SubSeq(cands[k], 1, n)]

\* candidates <<cx, cy, w, h, score of class 0, score of class 1>>
CandLists ==
    { << <<640, 640, 400, 400, 3, 1>>,      \* centred box, class 0, 0.75
         <<680, 640, 400, 400, 2, 3>> >>,   \* overlaps it, class 1, 0.75
      << <<40, 40, 160, 160, 2, 0>>,        \* reaches over the top left corner
         <<1600, 640, 80, 80, 4, 0>> >>,    \* right of the image: degenerate
      << <<640, 640, 400, 400, 0, 0>>,      \* score 0
         <<640, 640, 0, 200, 3, 0>> >>,     \* zero width
      << <<640, 640, 400, 400, 12, -4>>,    \* logits 3.0 and -1.0
         <<200, 900, 200, 200, 1, 1>> >>,   \* 0.25 in both classes
      << <<200, 900, 200, 200, 1, 1>>,
         <<640, 640, -400, 400, 3, 4>> >> } \* negative width

Tensors ==
    UNION { { Tensor(<<1, 6, 7>>, Transpose(PadTo(l, 7), 7, 6)),
              Tensor(<<1, 7, 6>>, PadTo(l, 7)),
              Tensor(<<1, 6, 6>>, PadTo(l, 6)),
              Tensor(<<1, 6, 6>>, Transpose(PadTo(l, 6), 6, 6)),
              Tensor(<<2, 2, 6>>, l),
              Tensor(<<1, 7, 5>>, Narrow(PadTo(l, 7), 5)) } : l \in CandLists }
    \cup { Tensor(<<1, 6, 4>>, Narrow(PadTo(<<>>, 6), 4)),
           Tensor(<<1, 6, 0>>, Narrow(PadTo(<<>>, 6), 0)),
           Tensor(<<0, 6, 7>>, <<>>),
           Tensor(<<>>, <<>>),
           Tensor(<<7>>, <<>>),
           Tensor(<<6, 7>>, <<>>),
           Tensor(<<1, 1, 6, 7>>, <<>>),
           Tensor(<<1, 5, 5>>, <<>>),
           Tensor(<<1, 0, 0>>, <<>>) }

ImageSizes == { <<320, 320>>, <<640, 480>>, <<100, 200>> }

Geometries ==
    { preprocess_letterbox(sz[1], sz[2], MODEL_INPUT_SIZE) : sz \in ImageSizes }

ScoreThresholds == {0, 1, 3, 5}

InitDecode ==
    /\ dec_out \in Tensors
    /\ dec_lb \in Geometries
    /\ dec_thresh \in ScoreThresholds
    /\ dec_res = NoDecode
    /\ dec_done = FALSE
    /\ NmsIdle
    /\ WsIdle

ApplyDecode ==
    /\ ~dec_done
    /\ dec_res' = decode_yolov8(dec_out, dec_lb, dec_thresh)
    /\ dec_done' = TRUE
    /\ UNCHANGED <<dec_out, dec_lb, dec_thresh, nmsVars, wsVars>>

NextDecode == ApplyDecode

SpecDecode == InitDecode /\ [][NextDecode]_vars

----------------------------------------------------------------------------
(* Spec: detect_ws, lines 184-227.  The locals of one loop iteration are    *)
(* reset when receive_json returns: the code assigns each before it reads   *)
(* it, so the values left over from the previous iteration are dead.        *)

FrameIds ==
    { Absent, Val("int", 7), Val("float", 29), Val("numstr", 8),
      Val("str", 0), Val("null", 0) }
CaptureTss == { Absent, Val("int", 1000), Val("str", 0) }
Payloads ==
    { Payload("absent", 0, 0), Payload("null", 0, 0), Payload("empty", 0, 0),
      Payload("nonstr", 0, 0), Payload("garbage", 0, 0),
      Payload("plain", 320, 320), Payload("dataurl", 640, 480),
      Payload("plain", 100, 200) }
Messages ==
    { Object(f, c, i) : f \in FrameIds, c \in CaptureTss, i \in Payloads }
    \cup { NotAnObject }

\* line 185: the connection is accepted and the loop entered
Init == WsIdle /\ NmsIdle /\ DecodeIdle

FreshIteration ==
    /\ frame_id' = 0
    /\ capture_ts' = 0
    /\ image_b64' = Payload("absent", 0, 0)
    /\ ws_lb' = NoGeometry
    /\ outputs' = NoTensor
    /\ ws_dets' = <<>>
    /\ sent' = <<>>
    /\ ran' = {}

\* lines 188-190: receive_json raises WebSocketDisconnect
ReceiveDisconnect ==
    /\ pc = "receive"
    /\ pc' = "closed"
    /\ inbound' = "disconnect"
    /\ msg' = NoMessage
    /\ FreshIteration
    /\ UNCHANGED <<nmsVars, decVars>>

ReceiveMalformedAnswers ==
    /\ pc = "receive"
    /\ pc' = "send_error"
    /\ inbound' = "malformed"
    /\ msg' = NoMessage
    /\ FreshIteration
    /\ UNCHANGED <<nmsVars, decVars>>
\* lines 188, 191-193: receive_json raises anything else (text that is no
\* JSON, a binary frame)
ReceiveMalformed ==
    /\ pc = "receive"
    /\ pc' = "receive"
    /\ inbound' = "malformed"
    /\ msg' = NoMessage
    /\ FreshIteration
    /\ UNCHANGED <<nmsVars, decVars>>

\* line 188: receive_json returns the parsed value
ReceiveJson ==
    /\ pc = "receive"
    /\ \E m \in Messages : msg' = m
    /\ pc' = "fields"
    /\ inbound' = "json"
    /\ FreshIteration
    /\ UNCHANGED <<nmsVars, decVars>>

\* lines 195-198; an exception here is outside every try block
ReadFields ==
    /\ pc = "fields"
    /\ LET fid == IntOf(Get(msg.frame_id, Val("int", -1)))
           cts == FloatOf(Get(msg.capture_ts, Val("int", 0)))
       IN  IF msg.kind # "object" \/ fid.raised
           THEN /\ pc' = "raised"
                /\ UNCHANGED <<frame_id, capture_ts, image_b64>>
           ELSE IF cts.raised
           THEN /\ pc' = "raised"
                /\ frame_id' = fid.v
                /\ UNCHANGED <<capture_ts, image_b64>>
           ELSE /\ frame_id' = fid.v
                /\ capture_ts' = cts.v
                /\ image_b64' = msg.image_b64
                /\ pc' = IF Falsy(msg.image_b64) THEN "send_missing"
                         ELSE "preprocess"
    /\ UNCHANGED <<inbound, msg, ws_lb, outputs, ws_dets, sent, ran, nmsVars, decVars>>

\* lines 199-200
SendMissing ==
    /\ pc = "send_missing"
    /\ sent' = Append(sent, MissingResponse)
    /\ pc' = "receive"
    /\ UNCHANGED <<inbound, msg, frame_id, capture_ts, image_b64, ws_lb, outputs,
                   ws_dets, ran, nmsVars, decVars>>

\* lines 205-206
Preprocess ==
    /\ pc = "preprocess"
    /\ LET img == decode_image_from_b64(image_b64)
       IN  IF img.raised
           THEN /\ pc' = "send_error"
                /\ ran' = ran \cup {"decode_image"}
                /\ ws_lb' = ws_lb
           ELSE /\ pc' = "inference"
                /\ ran' = ran \cup {"decode_image", "letterbox"}
                /\ ws_lb' = preprocess_letterbox(img.w, img.h, MODEL_INPUT_SIZE)
    /\ UNCHANGED <<inbound, msg, frame_id, capture_ts, image_b64, outputs, ws_dets,
                   sent, nmsVars, decVars>>

\* lines 208-212: SESSION.run returns a tensor
InferenceReturns ==
    /\ pc = "inference"
    /\ \E t \in Tensors : outputs' = t
    /\ ran' = ran \cup {"inference"}
    /\ pc' = "postprocess"
    /\ UNCHANGED <<inbound, msg, frame_id, capture_ts, image_b64, ws_lb, ws_dets, sent,
                   nmsVars, decVars>>

\* line 210: SESSION.run raises
InferenceRaises ==
    /\ pc = "inference"
    /\ ran' = ran \cup {"inference"}
    /\ pc' = "send_error"
    /\ UNCHANGED <<inbound, msg, frame_id, capture_ts, image_b64, ws_lb, outputs,
                   ws_dets, sent, nmsVars, decVars>>

\* lines 214-215: score_thresh = 0.25, iou_thresh = 0.45, max_det = 50
Postprocess ==
    /\ pc = "postprocess"
    /\ LET res == decode_yolov8(outputs, ws_lb, 1)
       IN  IF res.raised
           THEN /\ pc' = "send_error"
                /\ ran' = ran \cup {"decode_yolov8"}
                /\ ws_dets' = ws_dets
           ELSE /\ pc' = "send_result"
                /\ ran' = ran \cup {"decode_yolov8", "nms"}
                /\ ws_dets' = nms(res.dets, 45, 50)
    /\ UNCHANGED <<inbound, msg, frame_id, capture_ts, image_b64, ws_lb, outputs,
                   sent, nmsVars, decVars>>

\* lines 217-225
SendResult ==
    /\ pc = "send_result"
    /\ sent' = Append(sent, ResultResponse(frame_id, capture_ts, ws_dets))
    /\ pc' = "receive"
    /\ UNCHANGED <<inbound, msg, frame_id, capture_ts, image_b64, ws_lb, outputs,
                   ws_dets, ran, nmsVars, decVars>>

\* lines 226-227
SendError ==
    /\ pc = "send_error"
    /\ sent' = Append(sent, ErrorResponse(frame_id))
    /\ pc' = "receive"
    /\ UNCHANGED <<inbound, msg, frame_id, capture_ts, image_b64, ws_lb, outputs,
                   ws_dets, ran, nmsVars, decVars>>

Next ==
    \/ ReceiveDisconnect
    \/ ReceiveMalformed
    \/ ReceiveJson
    \/ ReadFields
    \/ SendMissing
    \/ Preprocess
    \/ InferenceReturns
    \/ InferenceRaises
    \/ Postprocess
    \/ SendResult
    \/ SendError

Spec == Init /\ [][Next]_vars

----------------------------------------------------------------------------
(* Properties of detect_ws, checked under Spec *)

\* the handler is between two loop iterations or has ended
IterationOver == pc \in {"receive", "closed", "raised"}

\* C1: an inbound JSON object with a non-empty image_b64 is answered by
\* exactly one response before the next message is read; the response carries
\* the message's frame_id (-1 when absent) and is a full result when image
\* decoding, letterbox, inference, decode_yolov8 and nms all succeeded, and
\* {frame_id, error} otherwise.
FrameAnsweredOnce ==
    (inbound = "json" /\ msg.kind = "object" /\ ~Falsy(msg.image_b64)
         /\ IterationOver) =>
        /\ Len(sent) = 1
        /\ sent[1].kind \in {"result", "error"}
        /\ sent[1].has_frame_id
        /\ sent[1].frame_id = IntOf(Get(msg.frame_id, Val("int", -1))).v
        /\ sent[1].kind = "result" <=> "nms" \in ran

\* C2: whatever the inbound message holds, the handler does not raise and
\* returns to receive_json; it leaves the loop only on a client disconnect.
HandlerNeverRaises ==
    /\ pc # "raised"
    /\ pc = "closed" => inbound = "disconnect"

\* C3: a message receive_json cannot deliver as JSON is dropped: no response
\* is sent for it, no pipeline step runs, and the handler is back at
\* receive_json.
MalformedDropped ==
    inbound = "malformed" => (pc = "receive" /\ sent = <<>> /\ ran = {})

\* a malformed message has been received and the handler waits for the next
MalformedSeen == inbound = "malformed" /\ pc = "receive"

\* C4: a JSON object whose image_b64 is absent or empty gets exactly one
\* response, {error: "missing image_b64"}, without the engine being invoked,
\* and the handler is back at receive_json.
MissingImageAnswered ==
    (inbound = "json" /\ msg.kind = "object" /\ Falsy(msg.image_b64)
         /\ IterationOver) =>
        /\ pc = "receive"
        /\ sent = <<MissingResponse>>
        /\ "inference" \notin ran

\* line 100 negated: rank other than 3, or both non-batch dimensions below 6
UnexpectedShape(dims) == Len(dims) # 3 \/ (dims[2] < 6 /\ dims[3] < 6)

\* C5 as stated: an output tensor of unexpected shape or rank is answered
\* with {frame_id, error}, not with a result.
UnexpectedShapeIsError ==
    (IterationOver /\ "decode_yolov8" \in ran /\ UnexpectedShape(outputs.dims)) =>
        /\ Len(sent) = 1
        /\ sent[1].kind = "error"

\* C5 amended: an output tensor of unexpected shape or rank raises nothing;
\* decode_yolov8 returns no detection and the frame is answered with a full
\* result whose detections are empty.
UnexpectedShapeIsEmptyResult ==
    (IterationOver /\ "decode_yolov8" \in ran /\ UnexpectedShape(outputs.dims)) =>
        sent = <<ResultResponse(frame_id, capture_ts, <<>>)>>

\* a frame whose output tensor has an unexpected shape has been answered
UnexpectedShapeAnswered ==
    /\ pc = "receive"
    /\ "decode_yolov8" \in ran
    /\ UnexpectedShape(outputs.dims)
    /\ Len(sent) = 1

----------------------------------------------------------------------------
(* Properties of nms, checked under SpecNms *)

\* C6: no two boxes of the list nms returns have IoU greater than iou_thresh,
\* the IoU of a pair whose union area is <= 0 counting as 0.
NmsKeepsNoOverlap ==
    nms_done =>
        \A i, j \in 1..Len(nms_keep) :
            i < j => ~IouExceeds(nms_keep[i], nms_keep[j], nms_iou_thresh)

\* a candidate was suppressed by overlap, not by max_det, and two were kept
NmsSuppressedOne ==
    /\ nms_done
    /\ Len(nms_keep) >= 2
    /\ Len(nms_keep) < nms_max_det
    /\ Len(nms_keep) < Len(nms_dets)

\* C7: the list nms returns has length <= max_det, for every max_det
\* (max_det = 0 and max_det = 1 included).
NmsLengthAtMostMaxDet == nms_done => Len(nms_keep) <= nms_max_det

\* C8: the list nms returns is a sub-collection of its input (each returned
\* detection is an input detection at a position of its own, unaltered), in
\* non-increasing score order, detections of equal score in input order.
NmsStableSubsequence ==
    nms_done =>
        \E f \in [1..Len(nms_keep) -> 1..Len(nms_dets)] :
            /\ \A i \in 1..Len(nms_keep) : nms_keep[i] = nms_dets[f[i]]
            /\ \A i, j \in 1..Len(nms_keep) :
                   i < j =>
                       /\ f[i] # f[j]
                       /\ nms_keep[i].score >= nms_keep[j].score
                       /\ nms_keep[i].score = nms_keep[j].score => f[i] < f[j]

\* the input was not in score order, and two different detections of equal
\* score were both kept
NmsKeptTie ==
    /\ nms_done
    /\ \E i, j \in 1..Len(nms_dets) :
           i < j /\ nms_dets[i].score < nms_dets[j].score
    /\ \E i, j \in 1..Len(nms_keep) :
           /\ i < j
           /\ nms_keep[i].score = nms_keep[j].score
           /\ nms_keep[i] # nms_keep[j]

----------------------------------------------------------------------------
(* Properties of decode_yolov8, checked under SpecDecode *)

DecodeLayoutNonStrict ==
    (dec_done /\ Accepted(dec_out.dims)) =>
        LET d1 == dec_out.dims[2]
            d2 == dec_out.dims[3]
        IN  IF d1 >= 6 /\ d1 <= d2
            THEN /\ dec_res.layout = "channel_first"
                 /\ dec_res.num_classes = d1 - 4 /\ dec_res.num_props = d2
                 /\ ~dec_res.raised => dec_res.x = dec_out.data
            ELSE /\ dec_res.layout = "box_first"
                 /\ dec_res.num_props = d1 /\ dec_res.num_classes = d2 - 4
                 /\ ~dec_res.raised
                        => dec_res.x = Transpose(dec_out.data, d1, d2)

\* C10 amended: channel-first exactly when d1 >= 6 and d1 < d2; every other
\* accepted output, d1 = d2 included, is read box-first and transposed.
DecodeLayoutStrict ==
    (dec_done /\ Accepted(dec_out.dims)) =>
        LET d1 == dec_out.dims[2]
            d2 == dec_out.dims[3]
        IN  IF d1 >= 6 /\ d1 < d2
            THEN /\ dec_res.layout = "channel_first"
                 /\ dec_res.num_classes = d1 - 4 /\ dec_res.num_props = d2
                 /\ ~dec_res.raised => dec_res.x = dec_out.data
            ELSE /\ dec_res.layout = "box_first"
                 /\ dec_res.num_props = d1 /\ dec_res.num_classes = d2 - 4
                 /\ ~dec_res.raised
                        => dec_res.x = Transpose(dec_out.data, d1, d2)

\* a square output was decoded box-first and yielded a detection
DecodeSquareReadBoxFirst ==
    /\ dec_done
    /\ Accepted(dec_out.dims)
    /\ dec_out.dims[2] = dec_out.dims[3]
    /\ dec_res.layout = "box_first"
    /\ dec_res.x = Transpose(dec_out.data, dec_out.dims[2], dec_out.dims[3])
    /\ dec_res.dets # <<>>

====
